---- MODULE Spec2Model ----
(***************************************************************************)
(* snapshot-cli (src/src/main.rs): a parallel, ignore-aware directory scan *)
(* (run_scanner), the folding of the resulting path list into a tree       *)
(* (insert_path / generate_project_tree), its rendering                    *)
(* (build_tree_string), the assembly of the snapshot document              *)
(* (generate_snapshot_content) and the command-line pipeline (main).       *)
(*                                                                         *)
(* A path is the sequence of its components (std::path::Components); a     *)
(* component is a name, and Bytes gives the name's bytes, so that the      *)
(* orderings the program uses (Ord for PathBuf, Ord for String) are        *)
(* computed on bytes as the standard library computes them.                *)
(*                                                                         *)
(* The module is ASCII: the box-drawing connectors of build_tree_string    *)
(* are written "|-- " (U+251C U+2500 U+2500 space), "+-- " (U+2514 U+2500  *)
(* U+2500 space) and "|   " (U+2502 and three spaces).                     *)
(***************************************************************************)
EXTENDS Naturals, Sequences, FiniteSets, TLC

(***************************************************************************)
(* Bounds of the model.                                                    *)
(***************************************************************************)
\* number of walker threads build_parallel() may run
MaxWorkers == 2
\* number of patterns in the ignore file at the root
MaxRules == 2
\* length of the path list handed to generate_snapshot_content directly
MaxPaths == 3

(***************************************************************************)
(* Names and their bytes.                                                  *)
(***************************************************************************)
Names ==
  { ".git", "config", ".gitignore", "a", "b", "a-b", "x", "config.toml",
    "data", "error.log", "proj", "other", "toml", "log", "-", "", "snap.md",
    "md", "0xFF" }

Bytes(name) ==
  CASE name = ".git"        -> <<46, 103, 105, 116>>
    [] name = "config"      -> <<99, 111, 110, 102, 105, 103>>
    [] name = ".gitignore"  -> <<46, 103, 105, 116, 105, 103, 110, 111, 114, 101>>
    [] name = "a"           -> <<97>>
    [] name = "b"           -> <<98>>
    [] name = "a-b"         -> <<97, 45, 98>>
    [] name = "x"           -> <<120>>
    [] name = "config.toml" -> <<99, 111, 110, 102, 105, 103, 46, 116, 111, 109, 108>>
    [] name = "data"        -> <<100, 97, 116, 97>>
    [] name = "error.log"   -> <<101, 114, 114, 111, 114, 46, 108, 111, 103>>
    [] name = "proj"        -> <<112, 114, 111, 106>>
    [] name = "other"       -> <<111, 116, 104, 101, 114>>
    [] name = "toml"        -> <<116, 111, 109, 108>>
    [] name = "log"         -> <<108, 111, 103>>
    [] name = "-"           -> <<45>>
    [] name = ""            -> <<>>
    [] name = "snap.md"     -> <<115, 110, 97, 112, 46, 109, 100>>
    [] name = "md"          -> <<109, 100>>
    \* a name of one byte, 0xFF
    [] name = "0xFF"        -> <<255>>

NameOf(bytes) == CHOOSE n \in Names : Bytes(n) = bytes

\* OsStr::to_str is Some for a name that is valid UTF-8: the names here hold
\* ASCII bytes, or the byte 0xFF, which no UTF-8 text holds
IsUtf8(name) == \A i \in 1..Len(Bytes(name)) : Bytes(name)[i] < 128

\* Ord for [u8] (and so for str, String and OsStr on Unix): the first
\* differing byte decides, a proper prefix is smaller.
RECURSIVE BytesLess(_, _)
BytesLess(s, t) ==
  IF t = <<>> THEN FALSE
  ELSE IF s = <<>> THEN TRUE
  ELSE IF s[1] # t[1] THEN s[1] < t[1]
  ELSE BytesLess(Tail(s), Tail(t))

NameLess(m, n) == BytesLess(Bytes(m), Bytes(n))

\* Ord for Path / PathBuf: compare_components, the lexicographic order of the
\* two component sequences, each component compared as bytes.
RECURSIVE PathLess(_, _)
PathLess(p, q) ==
  IF q = <<>> THEN FALSE
  ELSE IF p = <<>> THEN TRUE
  ELSE IF p[1] # q[1] THEN NameLess(p[1], q[1])
  ELSE PathLess(Tail(p), Tail(q))

\* Path::display / the path as one string: the components joined by '/' (47).
RECURSIVE PathString(_)
PathString(p) ==
  IF p = <<>> THEN <<>>
  ELSE IF Len(p) = 1 THEN Bytes(p[1])
  ELSE Bytes(p[1]) \o <<47>> \o PathString(Tail(p))

\* the order of the full path strings, character by character
StringLess(p, q) == BytesLess(PathString(p), PathString(q))

IsPrefix(p, q) == Len(p) <= Len(q) /\ SubSeq(q, 1, Len(p)) = p
IsProperPrefix(p, q) == Len(p) < Len(q) /\ SubSeq(q, 1, Len(p)) = p

\* Path::strip_prefix(base) with the fallback of generate_project_tree and
\* generate_snapshot_content: the path itself when it is not under base.
RelativePath(base, path) ==
  IF IsPrefix(base, path) THEN SubSeq(path, Len(base) + 1, Len(path)) ELSE path

\* Path::extension on the last component: the bytes after the last '.' (46),
\* none when the name has no '.' or only a leading one.
LastDot(bs) ==
  LET dots == {i \in 1..Len(bs) : bs[i] = 46}
  IN  IF dots = {} THEN 0 ELSE CHOOSE i \in dots : \A j \in dots : j <= i

Extension(path) ==
  IF path = <<>> THEN ""
  ELSE LET bs == Bytes(path[Len(path)])
           d  == LastDot(bs)
       IN  IF d <= 1 THEN "" ELSE NameOf(SubSeq(bs, d + 1, Len(bs)))

\* slice::sort on Vec<PathBuf>: a stable sort by Ord for PathBuf, computed by
\* insertion of each element after the elements that are not greater.
RECURSIVE InsertSorted(_, _)
InsertSorted(sorted, p) ==
  IF sorted = <<>> THEN <<p>>
  ELSE IF PathLess(p, sorted[1]) THEN <<p>> \o sorted
  ELSE <<sorted[1]>> \o InsertSorted(Tail(sorted), p)

RECURSIVE SortPathsFrom(_, _)
SortPathsFrom(acc, rest) ==
  IF rest = <<>> THEN acc
  ELSE SortPathsFrom(InsertSorted(acc, rest[1]), Tail(rest))

SortPathsUnsorted(paths) == paths

RECURSIVE InsertByString(_, _)
InsertByString(sorted, p) ==
  IF sorted = <<>> THEN <<p>>
  ELSE IF StringLess(p, sorted[1]) THEN <<p>> \o sorted
  ELSE <<sorted[1]>> \o InsertByString(Tail(sorted), p)

RECURSIVE SortByStringFrom(_, _)
SortByStringFrom(acc, rest) ==
  IF rest = <<>> THEN acc
  ELSE SortByStringFrom(InsertByString(acc, rest[1]), Tail(rest))

SortPathsByString(paths) == SortByStringFrom(<<>>, paths)

SortPaths(paths) == SortPathsFrom(<<>>, paths)

(***************************************************************************)
(* The program's state.                                                    *)
(***************************************************************************)
VARIABLES
  disk,          \* the directory tree: relative path -> kind of the entry
  written,       \* the files that hold a snapshot: path -> the document
  ignore_file,   \* <root>/.gitignore: Some(its patterns), or NoFile
  global_ignore, \* the user's global gitignore: Some(its patterns), or NoFile
  unreadable,    \* the paths whose std::fs::read_to_string fails
  project_path,  \* cli.path, the base path of the scan
  nworkers,      \* the threads build_parallel() runs in this invocation
  pc,            \* where main is
  pending,       \* the walker's work: entries found and not yet visited
  at,            \* what each walker thread is doing
  alive,         \* the walker threads still running
  quit,          \* a visitor answered WalkState::Quit
  senders,       \* live Sender handles of the channel (tx and its clones)
  chan,          \* the channel's buffer, in the order of the sends
  delivered,     \* the entries handed to the visitor so far
  file_paths,    \* the Vec<PathBuf> run_scanner returned
  root,          \* the TreeNode generate_project_tree builds
  idx,           \* the position of the loops over paths
  tree_text,     \* generate_project_tree's text, a sequence of lines
  blocks,        \* the fenced blocks built so far
  doc,           \* Some(snapshot_content), or NoDoc
  output,        \* what main wrote: stdout, the --out file, stderr
  run,           \* 1 in the first invocation, 2 in the second
  prev,          \* file_paths, doc and tree of the first invocation
  start          \* the tree as it was when this invocation began

vars ==
  << disk, written, ignore_file, global_ignore, unreadable, project_path,
     nworkers, pc, pending, at, alive, quit, senders, chan, delivered,
     file_paths, root, idx, tree_text, blocks, doc, output, run, prev, start >>

ruleVars == << ignore_file, global_ignore, unreadable, project_path >>
inputVars == << disk, written, ruleVars >>
walkVars == << pending, at, alive, quit, senders, chan, delivered >>
docVars == << root, idx, tree_text, blocks, doc >>

\* Option values: None is the empty sequence, Some(v) is << v >>
NoFile == <<>>
NoDoc == <<>>
Some(v) == << v >>
RootPath == << "proj" >>
\* the path "-", which the walker takes for standard input
StdinPath == << "-" >>

(***************************************************************************)
(* Ignore rules, as the ignore crate evaluates them for the walker that    *)
(* run_scanner configures.  A pattern is a parsed gitignore line.  The     *)
(* layers are the override of run_scanner, the .gitignore at the root and  *)
(* the global gitignore; the tree has no .ignore file, no                  *)
(* .git/info/exclude and no ignore file above the root.                    *)
(***************************************************************************)
\* "data/"
PatDataDir == [neg |-> FALSE, dirOnly |-> TRUE, kind |-> "name", arg |-> "data"]
\* "*.toml"
PatToml == [neg |-> FALSE, dirOnly |-> FALSE, kind |-> "suffix", arg |-> "toml"]
\* "*"
PatAll == [neg |-> FALSE, dirOnly |-> FALSE, kind |-> "any", arg |-> ""]
\* "!.git/"
PatNotGitDir == [neg |-> TRUE, dirOnly |-> TRUE, kind |-> "name", arg |-> ".git"]
\* "!config.toml"
PatNotConfigToml ==
  [neg |-> TRUE, dirOnly |-> FALSE, kind |-> "name", arg |-> "config.toml"]

Patterns == { PatDataDir, PatToml, PatAll, PatNotGitDir, PatNotConfigToml }

\* the ignore files considered: no repeated line, at most MaxRules lines
RECURSIVE RuleLists(_)
RuleLists(n) ==
  IF n = 0 THEN { <<>> }
  ELSE LET shorter == RuleLists(n - 1)
       IN  shorter \cup
           { Append(l, p) : l \in {s \in shorter : Len(s) = n - 1},
                            p \in Patterns }

NoRepeat(l) == \A i, j \in 1..Len(l) : i # j => l[i] # l[j]

IgnoreFiles == { NoFile } \cup { Some(l) : l \in {r \in RuleLists(MaxRules) : NoRepeat(r)} }

EndsWith(bs, suffix) ==
  Len(suffix) <= Len(bs) /\
  SubSeq(bs, Len(bs) - Len(suffix) + 1, Len(bs)) = suffix

\* one glob against one entry: a pattern without an inner '/' matches the
\* entry's name at any depth; a directory-only pattern needs a directory
PatternMatches(pat, rel, is_dir) ==
  /\ rel # <<>>
  /\ pat.dirOnly => is_dir
  /\ CASE pat.kind = "name"   -> rel[Len(rel)] = pat.arg
       [] pat.kind = "suffix" ->
            EndsWith(Bytes(rel[Len(rel)]), <<46>> \o Bytes(pat.arg))
       [] pat.kind = "any"    -> TRUE

\* Gitignore::matched: the last matching line decides
GitignoreMatched(patterns, rel, is_dir) ==
  LET hits == {i \in 1..Len(patterns) : PatternMatches(patterns[i], rel, is_dir)}
  IN  IF hits = {} THEN "None"
      ELSE LET last == CHOOSE i \in hits : \A j \in hits : j <= i
           IN  IF patterns[last].neg THEN "Whitelist" ELSE "Ignore"

\* override_builder.add("!.git/"): the one override glob
OverrideGlobs == << PatNotGitDir >>

Invert(m) ==
  CASE m = "Ignore" -> "Whitelist" [] m = "Whitelist" -> "Ignore" [] OTHER -> m

\* Override::matched: the gitignore verdict inverted; a file no glob matches
\* is ignored only when some override glob is a whitelist (one without '!')
OverrideMatched(rel, is_dir) ==
  LET mat == Invert(GitignoreMatched(OverrideGlobs, rel, is_dir))
      whitelists == {i \in 1..Len(OverrideGlobs) : ~OverrideGlobs[i].neg}
  IN  IF mat = "None" /\ whitelists # {} /\ ~is_dir THEN "Ignore" ELSE mat

\* a mutant: the walker's default, hidden entries are skipped
HiddenFilterOn == TRUE

\* .hidden(false)
HiddenFilter == FALSE

IsHidden(rel) == rel # <<>> /\ Bytes(rel[Len(rel)]) # <<>> /\ Bytes(rel[Len(rel)])[1] = 46

\* the global gitignore files considered
GlobalIgnoreFiles == { NoFile, Some(<< PatToml, PatNotGitDir >>) }

LayerMatched(layer, rel, is_dir) ==
  IF layer = NoFile THEN "None" ELSE GitignoreMatched(layer[1], rel, is_dir)

\* Ignore::matched_ignore with .git_ignore(true), .git_global(true) and
\* .require_git(false): the verdict of .gitignore if it has one, else that of
\* the global gitignore
IgnoreFileMatched(rel, is_dir) ==
  LET m_gi     == LayerMatched(ignore_file, rel, is_dir)
      m_global == LayerMatched(global_ignore, rel, is_dir)
  IN  IF m_gi # "None" THEN m_gi ELSE m_global

\* a mutant: the ignore files are asked before the overrides
MatchedIgnoreFirst(rel, is_dir) ==
  LET ig == IgnoreFileMatched(rel, is_dir)
  IN  IF ig # "None" THEN ig ELSE OverrideMatched(rel, is_dir)

\* Ignore::matched: the overrides first, then the ignore files, then the
\* hidden filter
Matched(rel, is_dir) ==
  LET ov == OverrideMatched(rel, is_dir)
      ig == IgnoreFileMatched(rel, is_dir)
  IN  IF ov # "None" THEN ov
      ELSE IF ig = "Ignore" THEN "Ignore"
      ELSE IF ig = "None" /\ HiddenFilter /\ IsHidden(rel) THEN "Ignore"
      ELSE ig

\* DirEntry::is_dir, from the entry's file type: a directory is one whether
\* or not it can be read
IsDir(kind) == kind \in {"dir", "noperm"}

\* should_skip_entry: the walker drops an ignored entry, and with a directory
\* everything beneath it
ShouldSkip(rel) == Matched(rel, IsDir(disk[rel])) = "Ignore"

ChildrenOf(rel) ==
  {c \in DOMAIN disk : Len(c) = Len(rel) + 1 /\ IsPrefix(rel, c)}

(***************************************************************************)
(* TreeNode, insert_path, build_tree_string.                               *)
(***************************************************************************)
FileNode == [kind |-> "File"]
Directory(children) == [kind |-> "Directory", children |-> children]
\* HashMap::new()
EmptyMap == [n \in {} |-> FileNode]

\* HashMap::insert: the value under the key is replaced
MapInsert(children, name, node) ==
  [n \in (DOMAIN children) \cup {name} |-> IF n = name THEN node ELSE children[n]]

\* a mutant: a File already under the key is turned into a Directory instead
\* of being kept
RECURSIVE insert_path_replacing(_, _)
insert_path_replacing(node, components) ==
  IF components = <<>> THEN node
  ELSE IF node.kind = "Directory" THEN
    IF Len(components) = 1
    THEN Directory(MapInsert(node.children, components[1], FileNode))
    ELSE LET name == components[1]
             child == IF name \in DOMAIN node.children /\
                         node.children[name].kind = "Directory"
                      THEN node.children[name]
                      ELSE Directory(EmptyMap)
         IN  Directory(MapInsert(node.children, name,
                                 insert_path_replacing(child, Tail(components))))
  ELSE node

RECURSIVE insert_path(_, _)
insert_path(node, components) ==
  IF components = <<>> THEN node
  ELSE IF node.kind = "Directory" THEN
    IF Len(components) = 1
    THEN Directory(MapInsert(node.children, components[1], FileNode))
    ELSE LET name == components[1]
             \* entry(name).or_insert(Directory): an existing child is kept
             child == IF name \in DOMAIN node.children
                      THEN node.children[name]
                      ELSE Directory(EmptyMap)
         IN  Directory(MapInsert(node.children, name,
                                 insert_path(child, Tail(components))))
  ELSE node

\* The iteration order of a HashMap follows the keys' hashes under the map's
\* random seed: any order of the keys can come out.  The orders of n keys are
\* numbered 0 .. n!-1: number k takes the keys, listed by name, at the places
\* its digits in the factorial number system give.
RECURSIVE Factorial(_)
Factorial(n) == IF n = 0 THEN 1 ELSE n * Factorial(n - 1)

RECURSIVE KeysByName(_)
KeysByName(keys) ==
  IF keys = {} THEN <<>>
  ELSE LET m == CHOOSE n \in keys : \A o \in keys : o = n \/ NameLess(n, o)
       IN  <<m>> \o KeysByName(keys \ {m})

RECURSIVE Permuted(_, _)
Permuted(keys, k) ==
  IF keys = <<>> THEN <<>>
  ELSE LET n == Len(keys)
           i == (k % n) + 1
           rest == [j \in 1..(n - 1) |-> IF j < i THEN keys[j] ELSE keys[j + 1]]
       IN  <<keys[i]>> \o Permuted(rest, k \div n)

\* children.keys().collect(), the map iterating in its order number `order`
\* (taken modulo the number of orders the map has)
KeysIter(children, order) ==
  Permuted(KeysByName(DOMAIN children),
           order % Factorial(Cardinality(DOMAIN children)))

\* the largest number of keys in a map of the tree
RECURSIVE Widest(_)
Widest(node) ==
  IF node.kind = "File" THEN 0
  ELSE LET below == { Widest(node.children[n]) : n \in DOMAIN node.children }
                      \cup { Cardinality(DOMAIN node.children) }
       IN  CHOOSE m \in below : \A o \in below : o <= m

\* entries.sort() on Vec<&String>: Ord for String
RECURSIVE InsertName(_, _)
InsertName(sorted, n) ==
  IF sorted = <<>> THEN <<n>>
  ELSE IF NameLess(n, sorted[1]) THEN <<n>> \o sorted
  ELSE <<sorted[1]>> \o InsertName(Tail(sorted), n)

RECURSIVE SortNamesFrom(_, _)
SortNamesFrom(acc, rest) ==
  IF rest = <<>> THEN acc
  ELSE SortNamesFrom(InsertName(acc, rest[1]), Tail(rest))

SortNamesUnsorted(entries) == entries

SortNames(entries) == SortNamesFrom(<<>>, entries)

\* a line of the text: its pieces in order, the prefix columns, the connector
\* and the name (the format! of build_tree_string, without the '\n')
Connector(is_last) == IF is_last THEN "+-- " ELSE "|-- "
ChildPrefix(is_last) == IF is_last THEN "    " ELSE "|   "

RECURSIVE build_tree_string(_, _, _)
RECURSIVE EntryLines(_, _, _, _, _)
EntryLines(node, entries, i, prefix, order) ==
  IF i > Len(entries) THEN <<>>
  ELSE LET name    == entries[i]
           is_last == (i = Len(entries))
           line    == prefix \o << Connector(is_last), name >>
           child   == node.children[name]
           below   == IF child.kind = "Directory"
                      THEN build_tree_string(
                             child, prefix \o << ChildPrefix(is_last) >>, order)
                      ELSE <<>>
       IN  <<line>> \o below \o EntryLines(node, entries, i + 1, prefix, order)

build_tree_string(node, prefix, order) ==
  IF node.kind = "Directory"
  THEN EntryLines(node, SortNames(KeysIter(node.children, order)), 1, prefix,
                  order)
  ELSE <<>>

\* ".\n".to_owned() + &build_tree_string(&root, "")
TreeText(node, order) == << <<".">> >> \o build_tree_string(node, <<>>, order)

(***************************************************************************)
(* generate_snapshot_content: the blocks and the document.                 *)
(***************************************************************************)
\* std::fs::read_to_string(path)
ReadToString(path) ==
  IF path \in unreadable
  THEN [ok |-> FALSE, err |-> "io error"]
  ELSE IF path \in DOMAIN written /\ written[path].len = "cut"
  THEN [ok |-> FALSE, err |-> "stream did not contain valid UTF-8"]
  ELSE IF path \in DOMAIN written
  THEN [ok |-> TRUE,
        text |-> IF written[path].len = "none" THEN <<>>
                 ELSE << "snapshot", written[path] >>]
  ELSE [ok |-> TRUE, text |-> << "content of", path >>]

\* the closure of paths.iter().map(..): one fenced block, whose fence line is
\* "{lang}:{relative path}" and whose body is the content or the error text
FileBlock(base_path, path) ==
  LET r == ReadToString(path)
  IN  [ lang |-> Extension(path),
        rel  |-> RelativePath(base_path, path),
        body |-> IF r.ok THEN r.text ELSE << "Error reading file: ", r.err >> ]

AppendBlock(bs, base_path, path) == Append(bs, FileBlock(base_path, path))

\* project_path.file_name().unwrap_or_else(|| project_path.as_os_str())
ProjectName(path) == IF path = <<>> THEN "" ELSE path[Len(path)]

\* the concatenation of header, summary, total_files, project_tree,
\* file_contents_header and file_contents, kept as its parts
SnapshotDocument(project_name, paths, text, bs) ==
  [ title  |-> project_name,
    total  |-> Len(paths),
    tree   |-> text,
    blocks |-> bs ]

(***************************************************************************)
(* The directory trees scanned.  Kinds of an entry: "dir", "file",         *)
(* "symlink" (a file type that is no regular file; links are not           *)
(* followed), "noperm" (a directory that cannot be read) and "none" (the   *)
(* entry of standard input, whose file_type() is None).                    *)
(***************************************************************************)
DiskFrom(entries) ==
  [p \in {e[1] : e \in entries} |-> (CHOOSE e \in entries : e[1] = p)[2]]

\* A tree: the directories a with a/b and a-b with a-b/x; with
\* `extras`, config.toml and the directory data with data/error.log; with
\* `git`, the directory .git with .git/config; .gitignore when there is an
\* ignore file; with `odd`, a file whose name is no UTF-8.  dkind is the
\* kind of the directories a, data and .git (all three can be read, or none
\* of them: their files are there all the same), xkind the kind of a-b/x.
InitialDisk(git, dkind, xkind, extras, odd, ign) ==
  DiskFrom(
    { << <<>>, "dir" >>, << <<"a-b">>, "dir" >>, << <<"a-b", "x">>, xkind >> }
    \cup { << <<"a">>, dkind >>, << <<"a", "b">>, "file" >> }
    \cup (IF git
          THEN { << <<".git">>, dkind >>, << <<".git", "config">>, "file" >> }
          ELSE {})
    \cup (IF extras
          THEN { << <<"config.toml">>, "file" >>, << <<"data">>, dkind >>,
                 << <<"data", "error.log">>, "file" >> }
          ELSE {})
    \cup (IF odd THEN { << <<"0xFF">>, "file" >> } ELSE {})
    \cup (IF ign # NoFile THEN { << <<".gitignore">>, "file" >> } ELSE {}))

\* every choice of (git, dkind, xkind, extras, odd)
AllTrees ==
  BOOLEAN \X {"dir", "noperm"} \X {"file", "symlink"} \X BOOLEAN \X BOOLEAN

\* the trees whose names are all UTF-8
Utf8Trees == { t \in AllTrees : ~t[5] }

\* the ignore files of the scans with several threads: none, one that
\* ignores everything, and the one of test_scanner_with_gitignore
SomeIgnoreFiles == { NoFile, Some(<< PatAll >>), Some(<< PatDataDir, PatToml >>) }

\* snapshot-cli - : the only entry is standard input
StdinDisk == DiskFrom({ << <<>>, "none" >> })

\* standard error is the sequence of the texts written to it, each in full
\* or in part
NoOutput == [stdout |-> NoDoc, file |-> NoDoc, stderr |-> <<>>]

\* no file holds a snapshot
NothingWritten == [p \in {} |-> NoDoc]

\* a walker thread that holds no entry
Idle == [step |-> "idle", e |-> <<>>, todo |-> {}]

\* the files whose read may fail: a-b/x
MayFail == { <<"a-b", "x">> }

\* the state main starts in, for the given ignore files, global gitignore
\* files, trees, files whose read may fail and numbers of threads
InitWith(ignore_files, global_files, trees, may_fail, threads) ==
  /\ \/ /\ project_path = RootPath
        /\ ignore_file \in ignore_files
        /\ global_ignore \in global_files
        /\ \E t \in trees : disk = InitialDisk(t[1], t[2], t[3], t[4], t[5], ignore_file)
        \* a regular file of the tree may be one that cannot be read
        /\ unreadable \in { {} } \cup
             { { RootPath \o e } : e \in { f \in may_fail : disk[f] = "file" } }
     \/ /\ project_path = StdinPath
        /\ ignore_file = NoFile
        /\ global_ignore = NoFile
        /\ disk = StdinDisk
        /\ unreadable = {}
  /\ written = NothingWritten
  /\ nworkers \in threads
  /\ pc = "start"
  /\ pending = {}
  /\ at = [w \in 1..MaxWorkers |-> Idle]
  /\ alive = {}
  /\ quit = FALSE
  /\ senders = 0
  /\ chan = <<>>
  /\ delivered = {}
  /\ file_paths = <<>>
  /\ root = Directory(EmptyMap)
  /\ idx = 1
  /\ tree_text = <<>>
  /\ blocks = <<>>
  /\ doc = NoDoc
  /\ output = NoOutput
  /\ run = 1
  /\ prev = [paths |-> <<>>, doc |-> NoDoc,
             start |-> [disk |-> disk, written |-> written]]
  /\ start = [disk |-> disk, written |-> written]

\* the scans with several threads: every tree of UTF-8 names, the ignore
\* files of SomeIgnoreFiles, no global gitignore, every file readable
Init == InitWith(SomeIgnoreFiles, { NoFile }, Utf8Trees, {}, 1..MaxWorkers)

(***************************************************************************)
(* run_scanner.                                                            *)
(***************************************************************************)
\* unbounded(), the builders, build_parallel().run(..): the walk starts at
\* the root with one visitor, and so one clone of tx, for each thread
RunScannerStart ==
  /\ pc = "start"
  /\ pc' = "walk"
  /\ pending' = { <<>> }
  /\ at' = [w \in 1..MaxWorkers |-> Idle]
  /\ alive' = 1..nworkers
  /\ quit' = FALSE
  /\ senders' = 1 + nworkers
  /\ chan' = <<>>
  /\ delivered' = {}
  /\ start' = [disk |-> disk, written |-> written]
  /\ UNCHANGED << inputVars, nworkers, file_paths, docVars, output, run, prev >>

\* what the walker hands to the visitor: Ok(entry) with the entry's file
\* type, or an Err
OkResult(ft) == [ok |-> TRUE, ft |-> ft]
ErrResult == [ok |-> FALSE, ft |-> "none"]
\* DirEntry::file_type of an entry of the given kind
FileTypeOf(kind) == IF kind = "noperm" THEN "dir" ELSE kind

\* the visitor: Ok(entry) with Some(ft) and ft.is_file() sends the path
VisitorSends(result) ==
  IF result.ok
  THEN (IF result.ft # "none" THEN result.ft = "file" ELSE FALSE)
  ELSE FALSE

\* a mutant: an Err ends the walk
VisitorStateQuitOnErr(result) == IF result.ok THEN "Continue" ELSE "Quit"

\* the visitor's answer: ignore::WalkState::Continue
VisitorState(result) == "Continue"

\* the children of a directory that the rules let through
ToQueue(e) == {c \in ChildrenOf(e) : ~ShouldSkip(c)}

\* a walker thread takes an entry off the work queue
TakeWork(w) ==
  /\ pc = "walk"
  /\ w \in alive
  /\ ~quit
  /\ at[w].step = "idle"
  /\ \E e \in pending :
       /\ pending' = pending \ {e}
       /\ at' = [at EXCEPT ![w] = [step |-> "visit", e |-> e, todo |-> {}]]
  /\ UNCHANGED << inputVars, nworkers, pc, alive, quit, senders, chan, delivered,
                  file_paths, docVars, output, run, prev, start >>

\* one call of the thread's visitor closure with `result` for its entry
CallVisitor(w, result, after) ==
  /\ delivered' = delivered \cup
       { [path |-> at[w].e, ok |-> result.ok, ft |-> result.ft] }
  /\ chan' = IF VisitorSends(result)
             THEN Append(chan, project_path \o at[w].e) ELSE chan
  /\ quit' = (quit \/ VisitorState(result) # "Continue")
  /\ at' = [at EXCEPT ![w] =
              IF VisitorState(result) = "Continue" THEN after ELSE Idle]

\* the thread calls its visitor with Ok(entry); what is left to do after it
\* is the Err of a directory that cannot be read, or the queueing of the
\* children of one that can
VisitOk(w) ==
  /\ pc = "walk"
  /\ w \in alive
  /\ at[w].step = "visit"
  /\ LET e == at[w].e
     IN  CallVisitor(w, OkResult(FileTypeOf(disk[e])),
           IF disk[e] = "noperm" THEN [step |-> "err", e |-> e, todo |-> {}]
           ELSE IF disk[e] = "dir" /\ ToQueue(e) # {}
           THEN [step |-> "children", e |-> e, todo |-> ToQueue(e)]
           ELSE Idle)
  /\ UNCHANGED << inputVars, nworkers, pc, pending, alive, senders, file_paths,
                  docVars, output, run, prev, start >>

\* the thread calls its visitor with the Err of reading the directory
VisitErr(w) ==
  /\ pc = "walk"
  /\ w \in alive
  /\ at[w].step = "err"
  /\ CallVisitor(w, ErrResult, Idle)
  /\ UNCHANGED << inputVars, nworkers, pc, pending, alive, senders, file_paths,
                  docVars, output, run, prev, start >>

\* the thread puts one child of its directory on the work queue; the
\* directory lists its children in whatever order
GenerateWork(w) ==
  /\ pc = "walk"
  /\ w \in alive
  /\ at[w].step = "children"
  /\ \E c \in at[w].todo :
       /\ pending' = pending \cup {c}
       /\ at' = [at EXCEPT ![w] =
                   IF at[w].todo = {c} THEN Idle
                   ELSE [at[w] EXCEPT !.todo = at[w].todo \ {c}]]
  /\ UNCHANGED << inputVars, nworkers, pc, alive, quit, senders, chan, delivered,
                  file_paths, docVars, output, run, prev, start >>

\* a thread ends when the walk was told to quit, or when the queue is empty
\* and no thread holds an entry; its visitor, and with it its clone of tx, is
\* dropped
WorkerExit(w) ==
  /\ pc = "walk"
  /\ w \in alive
  /\ at[w].step = "idle"
  /\ quit \/ (pending = {} /\ \A v \in alive : at[v].step = "idle")
  /\ alive' = alive \ {w}
  /\ senders' = senders - 1
  /\ UNCHANGED << inputVars, nworkers, pc, pending, at, quit, chan, delivered,
                  file_paths, docVars, output, run, prev, start >>

\* run(..) returns when every thread has ended
WalkReturn ==
  /\ pc = "walk"
  /\ alive = {}
  /\ pc' = "drop_tx"
  /\ UNCHANGED << inputVars, nworkers, walkVars, file_paths, docVars, output,
                  run, prev, start >>

\* drop(tx)
DropTx ==
  /\ pc = "drop_tx"
  /\ senders' = senders - 1
  /\ pc' = "collect"
  /\ UNCHANGED << inputVars, nworkers, pending, at, alive, quit, chan, delivered,
                  file_paths, docVars, output, run, prev, start >>

\* rx.iter().collect() ends when the channel is empty and has no sender;
\* then collected_paths.sort() and the return
Collect ==
  /\ pc = "collect"
  /\ senders = 0
  /\ file_paths' = SortPaths(chan)
  /\ chan' = <<>>
  /\ pc' = "scanned"
  /\ UNCHANGED << inputVars, nworkers, pending, at, alive, quit, senders,
                  delivered, docVars, output, run, prev, start >>

(***************************************************************************)
(* main after run_scanner, generate_snapshot_content and                   *)
(* generate_project_tree.                                                  *)
(***************************************************************************)
\* a mutant: the list is never taken for empty
IsEmptyNever(paths) == FALSE

\* file_paths.is_empty()
IsEmpty(paths) == paths = <<>>

\* a text written to a stream in full, and a part of it: some of its bytes,
\* not all, from the first on
Whole(text) == [len |-> "all", text |-> text]
PartOf(text) == [len |-> "part", text |-> text]

\* what a write of text that may fail adds to a stream: nothing, a part of
\* the text, or all of it
Wrote(text) == { <<>>, << PartOf(text) >>, << Whole(text) >> }

\* a panic after main has produced the output `before`: the report with its
\* message goes to standard error, in full, in part or not at all, as
\* standard error can be written
Panics(before, message) ==
  /\ pc' = "panicked"
  /\ \E report \in Wrote(message) :
       output' = [before EXCEPT !.stderr = @ \o report]

\* eprintln!(message) after main has produced the output `before`: the
\* message is written, or the writing fails with nothing or a part of the
\* message written and eprintln! panics
Eprintln(before, message) ==
  \/ /\ output' = [before EXCEPT !.stderr = @ \o << Whole(message) >>]
     /\ pc' = "done"
  \/ \E some \in { <<>>, << PartOf(message) >> } :
       Panics([before EXCEPT !.stderr = @ \o some],
              "failed printing to stderr")

\* if file_paths.is_empty() { eprintln!(..); return; }
\* otherwise generate_snapshot_content is entered
CheckEmpty ==
  /\ pc = "scanned"
  /\ IF IsEmpty(file_paths)
     THEN /\ Eprintln(output, "No files to include in the snapshot. Exiting.")
          /\ UNCHANGED << root, idx >>
     ELSE /\ pc' = "tree"
          /\ root' = Directory(EmptyMap)
          /\ idx' = 1
          /\ UNCHANGED output
  /\ UNCHANGED << inputVars, nworkers, walkVars, file_paths, tree_text, blocks,
                  doc, run, prev, start >>

\* one turn of `for path in paths` in generate_project_tree: the components
\* are turned into Strings with to_str().unwrap(), which panics on a
\* component that is no UTF-8, and the path is inserted
InsertPath ==
  /\ pc = "tree"
  /\ idx <= Len(file_paths)
  /\ LET rel == RelativePath(project_path, file_paths[idx])
     IN  IF \A i \in 1..Len(rel) : IsUtf8(rel[i])
         THEN /\ root' = insert_path(root, rel)
              /\ idx' = idx + 1
              /\ UNCHANGED << pc, output >>
         ELSE /\ Panics(output, "called Option::unwrap() on a None value")
              /\ UNCHANGED << root, idx >>
  /\ UNCHANGED << inputVars, nworkers, walkVars, file_paths, tree_text,
                  blocks, doc, run, prev, start >>

\* the loop is over: the text is built, in whichever order the maps iterate
Render ==
  /\ pc = "tree"
  /\ idx > Len(file_paths)
  /\ \E order \in 0..(Factorial(Widest(root)) - 1) :
       tree_text' = TreeText(root, order)
  /\ pc' = "blocks"
  /\ idx' = 1
  /\ UNCHANGED << inputVars, nworkers, walkVars, file_paths, root, blocks, doc,
                  output, run, prev, start >>

\* one turn of paths.iter().map(..)
ReadFile ==
  /\ pc = "blocks"
  /\ idx <= Len(file_paths)
  /\ blocks' = AppendBlock(blocks, project_path, file_paths[idx])
  /\ idx' = idx + 1
  /\ UNCHANGED << inputVars, nworkers, pc, walkVars, file_paths, root, tree_text,
                  doc, output, run, prev, start >>

\* .collect() and the final concat: generate_snapshot_content returns
Concat ==
  /\ pc = "blocks"
  /\ idx > Len(file_paths)
  /\ doc' = Some(SnapshotDocument(ProjectName(project_path), file_paths,
                                  tree_text, blocks))
  /\ pc' = "output"
  /\ UNCHANGED << inputVars, nworkers, walkVars, file_paths, root, idx, tree_text,
                  blocks, output, run, prev, start >>

\* the values of --out considered: a file outside the scanned directory, a
\* new file in it, and one of the files scanned
OutPaths ==
  { <<"other", "snap.md">>, RootPath \o <<"snap.md">>, RootPath \o <<"a", "b">> }

\* std::fs::write can create or truncate the file: its directory is there,
\* be it one that cannot be read, and the path is not that of something
\* other than a regular file
Writable(out) ==
  IsProperPrefix(project_path, out) =>
    LET rel == RelativePath(project_path, out)
        dir == SubSeq(rel, 1, Len(rel) - 1)
    IN  /\ dir \in DOMAIN disk
        /\ IsDir(disk[dir])
        /\ rel \in DOMAIN disk => disk[rel] = "file"

\* the tree after std::fs::write(out, ..): a file under the scanned directory
\* is then a regular file of the tree
DiskAfterWrite(out) ==
  IF IsProperPrefix(project_path, out)
  THEN LET rel == RelativePath(project_path, out)
       IN  [p \in (DOMAIN disk) \cup {rel} |-> IF p = rel THEN "file" ELSE disk[p]]
  ELSE disk

\* what a file holds after std::fs::write(out, document): all of the
\* document, or, when the write failed after the file was created and
\* truncated, nothing, a part of it that ends between two characters
\* ("part"), or a part that ends inside a character of several bytes, as
\* the connectors of the tree are ("cut")
FileContent(len, document) ==
  [len |-> len, doc |-> IF len = "none" THEN NoDoc ELSE document]

\* and the file holds what was written
WrittenAfterWrite(out, content) ==
  IF IsProperPrefix(project_path, out)
  THEN [p \in (DOMAIN written) \cup {out} |->
          IF p = out THEN content ELSE written[p]]
  ELSE written

\* cli.out is Some(path) and the write succeeds
WriteFile ==
  /\ pc = "output"
  /\ \E out \in OutPaths :
       /\ Writable(out)
       /\ disk' = DiskAfterWrite(out)
       /\ written' = WrittenAfterWrite(out, FileContent("all", doc))
  \* eprintln!("Snapshot successfully written to: ..")
  /\ Eprintln([output EXCEPT !.file = Some(FileContent("all", doc))],
              "Snapshot successfully written")
  /\ UNCHANGED << ruleVars, nworkers, walkVars, file_paths, docVars, run, prev,
                  start >>

\* cli.out is Some(path) and the write fails, expect(..) panics: either the
\* file could not be created, or it was created and truncated and the
\* writing of the content failed
WriteFails ==
  /\ pc = "output"
  /\ \/ /\ Panics(output, "Failed to write to output file")
        /\ UNCHANGED << disk, written >>
     \/ \E out \in OutPaths, len \in {"none", "part", "cut"} :
          /\ Writable(out)
          /\ disk' = DiskAfterWrite(out)
          /\ written' = WrittenAfterWrite(out, FileContent(len, doc))
          /\ Panics([output EXCEPT !.file = Some(FileContent(len, doc))],
                    "Failed to write to output file")
  /\ UNCHANGED << ruleVars, nworkers, walkVars, file_paths, docVars, run, prev,
                  start >>

\* cli.out is None: println! writes the document to standard output, or
\* panics because standard output cannot be written, with nothing or a part
\* of the document written
PrintStdout ==
  /\ pc = "output"
  /\ \/ /\ output' = [output EXCEPT !.stdout = Some(FileContent("all", doc))]
        /\ pc' = "done"
     \/ \E len \in {"none", "part", "cut"} :
          Panics([output EXCEPT !.stdout = IF len = "none" THEN NoDoc
                                           ELSE Some(FileContent(len, doc))],
                 "failed printing to stdout")
  /\ UNCHANGED << inputVars, nworkers, walkVars, file_paths, docVars, run, prev,
                  start >>

\* the program is run again with the same arguments on the tree as the first
\* invocation left it, with any number of threads
Rescan ==
  /\ pc \in {"done", "panicked"}
  /\ run = 1
  /\ run' = 2
  /\ prev' = [paths |-> file_paths, doc |-> doc, start |-> start]
  /\ nworkers' \in 1..MaxWorkers
  /\ pc' = "start"
  /\ pending' = {}
  /\ at' = [w \in 1..MaxWorkers |-> Idle]
  /\ alive' = {}
  /\ quit' = FALSE
  /\ senders' = 0
  /\ chan' = <<>>
  /\ delivered' = {}
  /\ file_paths' = <<>>
  /\ root' = Directory(EmptyMap)
  /\ idx' = 1
  /\ tree_text' = <<>>
  /\ blocks' = <<>>
  /\ doc' = NoDoc
  /\ output' = NoOutput
  /\ UNCHANGED << inputVars, start >>

\* one invocation
NextOnce ==
  \/ RunScannerStart
  \/ \E w \in 1..MaxWorkers : TakeWork(w)
  \/ \E w \in 1..MaxWorkers : VisitOk(w)
  \/ \E w \in 1..MaxWorkers : VisitErr(w)
  \/ \E w \in 1..MaxWorkers : GenerateWork(w)
  \/ \E w \in 1..MaxWorkers : WorkerExit(w)
  \/ WalkReturn
  \/ DropTx
  \/ Collect
  \/ CheckEmpty
  \/ InsertPath
  \/ Render
  \/ ReadFile
  \/ Concat
  \/ WriteFile
  \/ WriteFails
  \/ PrintStdout

Next == NextOnce \/ Rescan

\* two invocations with any number of threads each
Spec == Init /\ [][Next]_vars

\* one invocation with one thread, for every ignore file, every global
\* gitignore and every tree, a-b/x readable or not
InitRules == InitWith(IgnoreFiles, GlobalIgnoreFiles, AllTrees, MayFail, {1})

SpecRules == InitRules /\ [][NextOnce]_vars

(***************************************************************************)
(* generate_snapshot_content on its own: called with any list of paths     *)
(* (any order, repeated paths, a path that is a prefix of another, paths   *)
(* outside the base path, the base path itself) and any set of files whose *)
(* read fails.                                                             *)
(***************************************************************************)
DocPaths ==
  { <<"proj", "a">>, <<"proj", "a", "b">>, <<"proj", "a-b">>, <<"other", "a">>,
    <<"a">>, <<"proj">>, <<"proj", "0xFF">> }

RECURSIVE PathLists(_)
PathLists(n) ==
  IF n = 0 THEN { <<>> }
  ELSE LET shorter == PathLists(n - 1)
       IN  shorter \cup
           { Append(l, p) : l \in {s \in shorter : Len(s) = n - 1},
                            p \in DocPaths }

Elements(seq) == { seq[i] : i \in 1..Len(seq) }

InitDoc ==
  /\ file_paths \in PathLists(MaxPaths)
  /\ unreadable \in SUBSET Elements(file_paths)
  /\ project_path = RootPath
  /\ disk = DiskFrom({ << <<>>, "dir" >> })
  /\ written = NothingWritten
  /\ ignore_file = NoFile
  /\ global_ignore = NoFile
  /\ nworkers = 1
  /\ pc = "tree"
  /\ pending = {}
  /\ at = [w \in 1..MaxWorkers |-> Idle]
  /\ alive = {}
  /\ quit = FALSE
  /\ senders = 0
  /\ chan = <<>>
  /\ delivered = {}
  /\ root = Directory(EmptyMap)
  /\ idx = 1
  /\ tree_text = <<>>
  /\ blocks = <<>>
  /\ doc = NoDoc
  /\ output = NoOutput
  /\ run = 1
  /\ prev = [paths |-> <<>>, doc |-> NoDoc,
             start |-> [disk |-> disk, written |-> written]]
  /\ start = [disk |-> disk, written |-> written]

NextDoc ==
  \/ InsertPath
  \/ Render
  \/ ReadFile
  \/ Concat

SpecDoc == InitDoc /\ [][NextDoc]_vars

(***************************************************************************)
(* Vocabulary of the properties.                                           *)
(***************************************************************************)
\* run_scanner has returned
Scanned == pc \notin {"start", "walk", "drop_tx", "collect"}
\* generate_project_tree's loop is over
TreeBuilt == pc \in {"blocks", "output"} \/ (pc = "tree" /\ idx > Len(file_paths))
\* generate_project_tree has returned
Rendered == pc \in {"blocks", "output"}
\* generate_snapshot_content has returned
Assembled == pc \in {"output", "done", "panicked"} /\ doc # NoDoc

\* the tree is the one run_scanner walked
TreeAsScanned == disk = start.disk

RelativePaths == { RelativePath(project_path, file_paths[i]) : i \in 1..Len(file_paths) }

\* the relative paths that are not empty and have no proper prefix among them
Minimal(paths) ==
  { p \in paths : p # <<>> /\
      ~\E q \in paths : q # <<>> /\ IsProperPrefix(q, p) }

\* the node reached from `node` by walking the components, if there is one
RECURSIVE IsFileAt(_, _)
IsFileAt(node, components) ==
  IF components = <<>> THEN node.kind = "File"
  ELSE /\ node.kind = "Directory"
       /\ components[1] \in DOMAIN node.children
       /\ IsFileAt(node.children[components[1]], Tail(components))

\* the paths of all File leaves beneath `node`
RECURSIVE Leaves(_)
Leaves(node) ==
  IF node.kind = "File" THEN { <<>> }
  ELSE UNION { { <<n>> \o p : p \in Leaves(node.children[n]) } :
               n \in DOMAIN node.children }

\* The diagram of a set of leaf paths, stated line by line: one line for each
\* non-empty prefix of a leaf, in depth-first order with the names of a level
\* ascending; a line has one column for each ancestor level ("    " under an
\* ancestor that is the last of its level, "|   " otherwise), then the
\* connector ("+-- " for the last of its level, "|-- " otherwise), then the name.
NodesOf(leaves) == UNION { { SubSeq(p, 1, k) : k \in 1..Len(p) } : p \in leaves }
Parent(n) == SubSeq(n, 1, Len(n) - 1)
IsLastOfLevel(nodes, n) ==
  \A m \in nodes :
    (Len(m) = Len(n) /\ Parent(m) = Parent(n) /\ m # n)
      => NameLess(m[Len(m)], n[Len(n)])
LineOf(nodes, n) ==
  [j \in 1..(Len(n) - 1) |->
     IF IsLastOfLevel(nodes, SubSeq(n, 1, j)) THEN "    " ELSE "|   "]
  \o << (IF IsLastOfLevel(nodes, n) THEN "+-- " ELSE "|-- "), n[Len(n)] >>
RankOf(nodes, n) == Cardinality({ m \in nodes : PathLess(m, n) })
Layout(leaves) ==
  LET nodes == NodesOf(leaves)
  IN  [i \in 1..(Cardinality(nodes) + 1) |->
         IF i = 1 THEN <<".">>
         ELSE LineOf(nodes, CHOOSE n \in nodes : RankOf(nodes, n) = i - 2)]

\* The File leaves of a diagram, read top to bottom: a line is a leaf when the
\* next line is not deeper; its path is, for each level up to its own, the
\* name of the nearest line above of that level.
DepthOf(line) == Len(line) - 1
IsLeafLine(ls, i) == i = Len(ls) \/ DepthOf(ls[i + 1]) <= DepthOf(ls[i])
PathOfLine(ls, i) ==
  [j \in 1..DepthOf(ls[i]) |->
     LET k == CHOOSE k \in 1..i :
                /\ DepthOf(ls[k]) = j
                /\ \A m \in (k + 1)..i : DepthOf(ls[m]) # j
     IN  ls[k][Len(ls[k])]]
RECURSIVE LeafPathsFrom(_, _)
LeafPathsFrom(ls, i) ==
  IF i > Len(ls) THEN <<>>
  ELSE (IF IsLeafLine(ls, i) THEN << PathOfLine(ls, i) >> ELSE <<>>)
       \o LeafPathsFrom(ls, i + 1)
LeafPathsOfText(text) == LeafPathsFrom(Tail(text), 1)

(***************************************************************************)
(* C1.  For a fixed tree and fixed rules, the list run_scanner returns and *)
(* the document built from it are the same in two invocations, whatever    *)
(* the number of walker threads and the order of their visits and sends.   *)
(* The tree is fixed when the second invocation starts on the entries and  *)
(* file contents the first one started on: the first one did not write its *)
(* snapshot into the scanned directory.                                    *)
(***************************************************************************)
C1_TwoScansAgree ==
  (run = 2 /\ start = prev.start) =>
    /\ Scanned => file_paths = prev.paths
    /\ pc \in {"output", "done", "panicked"} => doc = prev.doc

C1_Witness ==
  /\ run = 2
  /\ start = prev.start
  /\ pc = "done"
  /\ nworkers = 2
  /\ Len(file_paths) >= 4
  /\ doc # NoDoc
  /\ doc = prev.doc

(***************************************************************************)
(* C2.  When run_scanner returns, its list holds the path of every entry   *)
(* handed to the visitor as Ok with the file type of a regular file,       *)
(* exactly once, and nothing else; a directory, an entry without file      *)
(* type and an Err add no path and do not stop the walk: every entry the   *)
(* rules let through beneath a visited directory has been visited.  The    *)
(* tree is the one that was walked.                                        *)
(***************************************************************************)
OkFile(d) == d.ok /\ d.ft = "file"

C2_ExactlyTheVisitedFiles ==
  (Scanned /\ TreeAsScanned) =>
    /\ \A d \in delivered :
         OkFile(d) =>
           Cardinality({ i \in 1..Len(file_paths) :
                           file_paths[i] = project_path \o d.path }) = 1
    /\ \A i \in 1..Len(file_paths) :
         \E d \in delivered : OkFile(d) /\ file_paths[i] = project_path \o d.path
    /\ \E d \in delivered : d.path = <<>>
    /\ \A d \in delivered :
         disk[d.path] = "dir" =>
           \A c \in ChildrenOf(d.path) :
             ~ShouldSkip(c) => \E dc \in delivered : dc.path = c /\ dc.ok

C2_Witness ==
  /\ pc = "scanned"
  /\ [path |-> <<"a">>, ok |-> TRUE, ft |-> "dir"] \in delivered
  /\ [path |-> <<"a">>, ok |-> FALSE, ft |-> "none"] \in delivered
  /\ [path |-> <<"data">>, ok |-> FALSE, ft |-> "none"] \in delivered
  /\ [path |-> <<"a-b", "x">>, ok |-> TRUE, ft |-> "symlink"] \in delivered
  /\ [path |-> <<"a-b">>, ok |-> TRUE, ft |-> "dir"] \in delivered
  /\ file_paths = << RootPath \o <<"config.toml">> >>

\* the entry without file type: the scan of "-"
C2_WitnessNoFileType ==
  /\ pc = "scanned"
  /\ delivered = { [path |-> <<>>, ok |-> TRUE, ft |-> "none"] }
  /\ file_paths = <<>>

(***************************************************************************)
(* C3, as claimed.  The list run_scanner returns is sorted by the full     *)
(* path string: of two adjacent paths the first one's string is strictly   *)
(* smaller, character by character.                                        *)
(***************************************************************************)
C3_SortedByPathString ==
  Scanned =>
    \A i \in 1..(Len(file_paths) - 1) : StringLess(file_paths[i], file_paths[i + 1])

(***************************************************************************)
(* C3, amended.  The list run_scanner returns is sorted by the order of    *)
(* PathBuf, the lexicographic order of the component sequences with each   *)
(* component compared bytewise, and holds no path twice: of two adjacent   *)
(* paths the first is strictly smaller in that order.                      *)
(***************************************************************************)
C3_SortedByComponents ==
  Scanned =>
    \A i \in 1..(Len(file_paths) - 1) : PathLess(file_paths[i], file_paths[i + 1])

C3_Witness ==
  /\ pc = "scanned"
  /\ \E i \in 1..(Len(file_paths) - 1) :
       /\ file_paths[i] = RootPath \o <<"a", "b">>
       /\ file_paths[i + 1] = RootPath \o <<"a-b", "x">>

(***************************************************************************)
(* C4.  No path run_scanner returns lies beneath the .git directory of the *)
(* root, and none is sent, whatever the ignore file says, one that         *)
(* re-includes .git with a negated pattern included.                       *)
(***************************************************************************)
BeneathGit(path) == IsProperPrefix(project_path \o <<".git">>, path)

C4_NothingBeneathGit ==
  /\ \A i \in 1..Len(chan) : ~BeneathGit(chan[i])
  /\ \A i \in 1..Len(file_paths) : ~BeneathGit(file_paths[i])

C4_Witness ==
  /\ pc = "scanned"
  /\ <<".git", "config">> \in DOMAIN disk
  /\ ignore_file = Some(<< PatNotGitDir >>)
  /\ global_ignore = Some(<< PatToml, PatNotGitDir >>)
  /\ Len(file_paths) >= 3
  /\ \A d \in delivered : d.path # <<".git">>

(***************************************************************************)
(* C5 as it is stated.  With an ignore file at the root and no .git        *)
(* directory, run_scanner returns exactly the regular files that the       *)
(* ignore file excludes neither themselves nor through one of their        *)
(* directories, in sorted order; the last matching pattern decides, and a  *)
(* name that starts with '.' is treated like any other.  The tree is the   *)
(* one that was walked.  This fails for a file in a directory that cannot  *)
(* be read: no pattern matches it and it is not returned.                  *)
(***************************************************************************)
ExcludedByFile(e) ==
  LET m_gi     == GitignoreMatched(ignore_file[1], e, IsDir(disk[e]))
      m_global == IF global_ignore = NoFile THEN "None"
                  ELSE GitignoreMatched(global_ignore[1], e, IsDir(disk[e]))
  IN  m_gi = "Ignore" \/ (m_gi = "None" /\ m_global = "Ignore")

ExpectedFiles ==
  { e \in DOMAIN disk :
      /\ disk[e] = "file"
      /\ \A k \in 1..Len(e) : ~ExcludedByFile(SubSeq(e, 1, k)) }

C5_ExactlyTheUnignoredFiles ==
  (Scanned /\ TreeAsScanned /\ ignore_file # NoFile /\
   <<".git">> \notin DOMAIN disk) =>
    /\ Elements(file_paths) = { project_path \o e : e \in ExpectedFiles }
    /\ Len(file_paths) = Cardinality(ExpectedFiles)
    /\ \A i \in 1..(Len(file_paths) - 1) : PathLess(file_paths[i], file_paths[i + 1])

(***************************************************************************)
(* C5, amended.  With an ignore file at the root and no .git directory,    *)
(* run_scanner returns exactly the regular files that the ignore file      *)
(* excludes neither themselves nor through one of their directories and    *)
(* that lie in no directory that cannot be read, each once and in sorted   *)
(* order; the last matching pattern decides, and a name that starts with   *)
(* '.' is treated like any other.  The tree is the one that was walked.    *)
(***************************************************************************)
\* every directory above e can be read
CanBeListed(e) ==
  \A k \in 1..(Len(e) - 1) : disk[SubSeq(e, 1, k)] # "noperm"

ListedFiles == { e \in ExpectedFiles : CanBeListed(e) }

C5_ExactlyTheListedUnignoredFiles ==
  (Scanned /\ TreeAsScanned /\ ignore_file # NoFile /\
   <<".git">> \notin DOMAIN disk) =>
    /\ Elements(file_paths) = { project_path \o e : e \in ListedFiles }
    /\ Len(file_paths) = Cardinality(ListedFiles)
    /\ \A i \in 1..(Len(file_paths) - 1) : PathLess(file_paths[i], file_paths[i + 1])

\* C5: the scan of test_scanner_with_gitignore has returned
C5_Witness ==
  /\ pc = "scanned"
  /\ ignore_file = Some(<< PatDataDir, PatToml >>)
  /\ global_ignore = NoFile
  /\ <<".git">> \notin DOMAIN disk
  /\ <<"config.toml">> \in DOMAIN disk
  /\ <<"data", "error.log">> \in DOMAIN disk
  /\ file_paths = << RootPath \o <<".gitignore">>, RootPath \o <<"a", "b">>,
                     RootPath \o <<"a-b", "x">> >>
  /\ [path |-> <<"data">>, ok |-> TRUE, ft |-> "dir"] \notin delivered

(***************************************************************************)
(* C6, as claimed, for the paths other than the base path itself.  After   *)
(* generate_project_tree has inserted every path, every path of the list   *)
(* is a File leaf reached from the root by the path's components, also     *)
(* when one path of the list is a prefix of another.                       *)
(***************************************************************************)
C6_EveryPathIsALeaf ==
  TreeBuilt =>
    \A p \in RelativePaths : p # <<>> => IsFileAt(root, p)

(***************************************************************************)
(* C6, amended.  After generate_project_tree has inserted every path, the  *)
(* File leaves of the tree are exactly the relative paths of the list that *)
(* are not empty and have no proper prefix among the list's non-empty      *)
(* relative paths (each of them one leaf, reached by its components); a    *)
(* path with such a prefix in the list has no leaf.                        *)
(***************************************************************************)
C6_LeavesAreTheMinimalPaths ==
  TreeBuilt =>
    /\ Leaves(root) = Minimal(RelativePaths)
    /\ \A p \in Minimal(RelativePaths) : IsFileAt(root, p)

C6_Witness ==
  /\ TreeBuilt
  /\ file_paths = << <<"proj", "a", "b">>, <<"other", "a">>, <<"proj", "a-b">> >>
  /\ Leaves(root) = { <<"a", "b">>, <<"other", "a">>, <<"a-b">> }

(***************************************************************************)
(* C7.  The text of generate_project_tree is the "." line followed by the  *)
(* diagram of the tree's leaves: at every level the children in ascending  *)
(* order of name, "|-- " before each but the last and "+-- " before the    *)
(* last, the lines beneath a directory indented by "|   " or "    ".  It   *)
(* depends on the set of paths alone: neither the order of the list nor    *)
(* the iteration order of the maps shows.                                  *)
(***************************************************************************)
C7_TextIsTheSortedDiagram ==
  Rendered => tree_text = Layout(Minimal(RelativePaths))

C7_Witness ==
  /\ Rendered
  /\ file_paths = << <<"other", "a">>, <<"proj", "a-b">>, <<"proj", "a", "b">> >>
  /\ tree_text = << << "." >>,
                    << "|-- ", "a" >>,
                    << "|   ", "+-- ", "b" >>,
                    << "|-- ", "a-b" >>,
                    << "+-- ", "other" >>,
                    << "    ", "+-- ", "a" >> >>

(***************************************************************************)
(* C8.  generate_snapshot_content returns one block for each path of the   *)
(* list, in the order of the list, whichever reads fail: assembly always   *)
(* runs through the last path, the block of a file whose read fails has    *)
(* the error text as its body, every other block has the file's content,   *)
(* and the file count is the number of blocks.                             *)
(* The code does not do this for a path with a component that is no UTF-8: *)
(* generate_project_tree panics on it before any block is made.            *)
(***************************************************************************)
C8_OneBlockPerPath ==
  /\ pc # "panicked"
  /\ pc = "blocks" => Len(blocks) = idx - 1
  /\ pc = "output" =>
       /\ Len(doc[1].blocks) = Len(file_paths)
       /\ doc[1].total = Len(doc[1].blocks)
       /\ \A i \in 1..Len(file_paths) :
            /\ doc[1].blocks[i].rel = RelativePath(project_path, file_paths[i])
            /\ doc[1].blocks[i].lang = Extension(file_paths[i])
            /\ doc[1].blocks[i].body =
                 IF file_paths[i] \in unreadable
                 THEN << "Error reading file: ", "io error" >>
                 ELSE << "content of", file_paths[i] >>

\* C8: the call that panics: the second path of the list has the name 0xFF,
\* every file can be read, and the call ends with no block and no document
C8_Witness ==
  /\ pc = "panicked"
  /\ file_paths = << <<"proj", "a">>, <<"proj", "0xFF">>, <<"proj", "a-b">> >>
  /\ unreadable = {}
  /\ idx = 2
  /\ blocks = <<>>
  /\ doc = NoDoc

(***************************************************************************)
(* C9 as it is stated.  When run_scanner returns an empty list,            *)
(* generate_snapshot_content is not entered and nothing goes to the output *)
(* file or to standard output: the "no files" message is reported and the  *)
(* run ends normally.  A document exists only for a list that is not       *)
(* empty.  The run does not always end normally: eprintln! panics when     *)
(* standard error cannot be written.                                       *)
(***************************************************************************)
C9_EmptyListNoDocument ==
  /\ (Scanned /\ file_paths = <<>>) =>
       /\ pc \in {"scanned", "done"}
       /\ doc = NoDoc
       /\ blocks = <<>>
       /\ tree_text = <<>>
       /\ output.stdout = NoDoc
       /\ output.file = NoDoc
       /\ pc = "done" =>
            output.stderr =
              << Whole("No files to include in the snapshot. Exiting.") >>
  /\ (doc # NoDoc \/ output.stdout # NoDoc \/ output.file # NoDoc) =>
       file_paths # <<>>

(***************************************************************************)
(* C9, amended.  When run_scanner returns an empty list,                   *)
(* generate_snapshot_content is not entered, nothing goes to the output    *)
(* file or to standard output, and no file of the tree is created or       *)
(* changed.  The run then ends in one of two ways: normally, with the      *)
(* "no files" message and nothing else on standard error, or, when the     *)
(* writing to standard error fails, with a panic: standard error then      *)
(* holds at most a part of the message, followed by as much of the panic's *)
(* report as could be written.                                             *)
(* A document, and any output, exists only for a list that is not empty.   *)
(***************************************************************************)
C9_EmptyListNothingProduced ==
  /\ (Scanned /\ file_paths = <<>>) =>
       /\ pc \in {"scanned", "done", "panicked"}
       /\ root = Directory(EmptyMap)
       /\ doc = NoDoc
       /\ blocks = <<>>
       /\ tree_text = <<>>
       /\ output.stdout = NoDoc
       /\ output.file = NoDoc
       /\ disk = start.disk
       /\ written = start.written
       /\ pc = "scanned" => output = NoOutput
       /\ pc = "done" =>
            output.stderr =
              << Whole("No files to include in the snapshot. Exiting.") >>
       /\ pc = "panicked" =>
            \E some \in { <<>>,
                           << PartOf("No files to include in the snapshot. Exiting.") >> },
               report \in Wrote("failed printing to stderr") :
              output.stderr = some \o report
  /\ (doc # NoDoc \/ output.stdout # NoDoc \/ output.file # NoDoc) =>
       file_paths # <<>>

\* C9: a scan of a tree whose every file is ignored has ended normally with
\* the message alone
C9_Witness ==
  /\ pc = "done"
  /\ file_paths = <<>>
  /\ ignore_file = Some(<< PatAll >>)
  /\ <<"config.toml">> \in DOMAIN disk
  /\ delivered = { [path |-> <<>>, ok |-> TRUE, ft |-> "dir"] }
  /\ output = [stdout |-> NoDoc, file |-> NoDoc,
               stderr |->
                 << Whole("No files to include in the snapshot. Exiting.") >>]

(***************************************************************************)
(* C10.  In the document of a scan, the File leaves of the tree diagram,   *)
(* read top to bottom, are the relative paths of the fenced blocks in the  *)
(* order of the blocks.                                                    *)
(***************************************************************************)
C10_LeavesInBlockOrder ==
  Assembled =>
    LeafPathsOfText(doc[1].tree) =
      [i \in 1..Len(doc[1].blocks) |-> doc[1].blocks[i].rel]

C10_Witness ==
  /\ pc = "done"
  /\ doc # NoDoc
  /\ Len(doc[1].blocks) >= 4
  /\ \E i \in 1..(Len(doc[1].blocks) - 1) :
       /\ doc[1].blocks[i].rel = <<"a", "b">>
       /\ doc[1].blocks[i + 1].rel = <<"a-b", "x">>

====
